---- MODULE Spec2Model ----
(***************************************************************************)
(* Local-first journal store with best-effort cloud mirror.                *)
(*                                                                         *)
(* The model covers the local SQLite tables (journal_entries, reports),    *)
(* the per-user remote tables, the session observer of AuthProvider with   *)
(* its reconciliation passes (pushAllEntries, pushAllReports,              *)
(* pullAllEntries), the journal/report service operations and signOut.     *)
(* Every `await` of the source is a step boundary: other handlers may run  *)
(* between two steps of one async function.                                *)
(***************************************************************************)
EXTENDS Integers, Sequences, FiniteSets, TLC

\* ---------------------------------------------------------------- bounds
MaxId == 2
MaxReportId == 1
MaxClock == 2
MaxPasses == 2
MaxPassesWithCalls == 1
MaxCalls == 2
MaxEdits == 2
MaxSaves == 3
MaxLoads == 3

\* ------------------------------------------------------------- constants
Users == {"A", "B"}
NULL == "null"

Ids == 1..MaxId
RIds == 1..MaxReportId

\* A timestamp string is represented by the instant it denotes (1, 2, ...);
\* BadTs is a string that `new Date(s)` cannot parse.
BadTs == 0
NaN == -1

\* No row with that primary key.
NoRow == [absent |-> TRUE]

EmptyTable == [i \in Ids |-> NoRow]
EmptyReports == [i \in RIds |-> NoRow]

Present(t) == {i \in DOMAIN t : t[i] # NoRow}

\* new Date(s).getTime(): NaN for an unparseable string
getTime(s) == IF s = BadTs THEN NaN ELSE s

isFinite(x) == x # NaN

\* the overwrite condition with `>=` for `>`: a tie overwrites
RemoteIsNewer_Tie(remoteUpdatedAt, localUpdatedAt) ==
    LET localTs == getTime(localUpdatedAt)
        remoteTs == getTime(remoteUpdatedAt)
    IN isFinite(localTs) /\ isFinite(remoteTs) /\ remoteTs >= localTs

\* sync.ts:93-95, the overwrite condition of pullAllEntries
RemoteIsNewer(remoteUpdatedAt, localUpdatedAt) ==
    LET localTs == getTime(localUpdatedAt)
        remoteTs == getTime(remoteUpdatedAt)
    IN isFinite(localTs) /\ isFinite(remoteTs) /\ remoteTs > localTs

\* a payload that sends created_at as updated_at
EntryPayload_Restamped(e) ==
    [title |-> e.title, content |-> e.content, date |-> e.date,
     created_at |-> e.created_at, updated_at |-> e.created_at]

\* sync.ts:10-18 / 30-37: local row -> remote payload (client_id is the key)
EntryPayload(e) ==
    [title |-> e.title, content |-> e.content, date |-> e.date,
     created_at |-> e.created_at, updated_at |-> e.updated_at]

\* reportsSync.ts pushAllReports / pushReport payload
ReportPayload(r) ==
    [content |-> r.content, status |-> r.status,
     createdAt |-> r.createdAt, updatedAt |-> r.updatedAt]

\* upsert(payload, onConflict: 'user_id,client_id') into one user's table
Upsert(store, payload) ==
    [i \in DOMAIN store |-> IF payload[i] # NoRow THEN payload[i] ELSE store[i]]

\* an INSERT that stamps the new row with created_at for updated_at
InsertedRow_Restamped(r) ==
    [title |-> r.title, content |-> r.content, date |-> r.date,
     created_at |-> r.created_at, updated_at |-> r.created_at]

\* sync.ts:87-90, the row pullAllEntries inserts for a remote record
InsertedRow(r) ==
    [title |-> r.title, content |-> r.content, date |-> r.date,
     created_at |-> r.created_at, updated_at |-> r.updated_at]

\* an UPDATE whose SET list leaves out the date column
OverwrittenRow_NoDate(r) ==
    [title |-> r.title, content |-> r.content, date |-> "d1",
     created_at |-> r.created_at, updated_at |-> r.updated_at]

\* sync.ts:96-99, the row pullAllEntries leaves after its UPDATE
OverwrittenRow(r) ==
    [title |-> r.title, content |-> r.content, date |-> r.date,
     created_at |-> r.created_at, updated_at |-> r.updated_at]

\* a sequence that ignores rows inserted with an explicit id
Max_First(a, b) == a

Max(a, b) == IF a > b THEN a ELSE b

\* a select without the .order(...) clause: the rows in any order
OrderedSelects_Unordered(store) ==
    LET ids == Present(store)
        n == Cardinality(ids)
    IN {s \in [1..n -> ids] : \A a, b \in 1..n : a # b => s[a] # s[b]}

\* .order('created_at', { ascending: true }): every ordering of the user's
\* rows that is ascending in created_at (ties in any order)
OrderedSelects(store) ==
    LET ids == Present(store)
        n == Cardinality(ids)
    IN {s \in [1..n -> ids] :
          /\ \A a, b \in 1..n : a # b => s[a] # s[b]
          /\ \A a, b \in 1..n : a < b =>
                getTime(store[s[a]].created_at) <= getTime(store[s[b]].created_at)}

\* the rows a select returns, each with its client_id
SelectRows(store, order) ==
    [k \in DOMAIN order |->
        [client_id |-> order[k], title |-> store[order[k]].title,
         content |-> store[order[k]].content, date |-> store[order[k]].date,
         created_at |-> store[order[k]].created_at,
         updated_at |-> store[order[k]].updated_at]]

\* ------------------------------------------------------------ seed data
\* Rows written to the remote tables by the user's other devices before
\* this device starts.
SeedStoreOne ==
    [i \in Ids |-> IF i = 1
        THEN [title |-> "tr", content |-> "r", date |-> "d2",
              created_at |-> 2, updated_at |-> 2]
        ELSE NoRow]

SeedStoreTwo ==
    [i \in Ids |->
        IF i = 1 THEN [title |-> "tr", content |-> "r", date |-> "d2",
                       created_at |-> 2, updated_at |-> BadTs]
        ELSE IF i = 2 THEN [title |-> "ts", content |-> "s", date |-> "d2",
                            created_at |-> 1, updated_at |-> 1]
        ELSE NoRow]

SeedStores == {EmptyTable, SeedStoreOne, SeedStoreTwo}

\* what the user types
NewTexts == {[title |-> "ta", content |-> "a"]}
EditedTexts == {[title |-> "tb", content |-> "b"]}
EntryDates == {"d1"}

VARIABLES
    session,        \* AuthProvider state `session` / the client's auth user
    marker,         \* lastPushedUserIdRef.current
    local,          \* SQLite table journal_entries, by id
    localSeq,       \* sqlite_sequence of journal_entries (AUTOINCREMENT)
    reports,        \* SQLite table reports, by id
    reportSeq,      \* sqlite_sequence of reports
    remote,         \* remote journal_entries, by user and client_id
    remoteReports,  \* remote reports, by user and client_id
    now,            \* the device clock
    passes,         \* the reconciliation passes started so far
    op,             \* the service call in flight (or the last one finished)
    soPc,           \* position of signOut
    calls,          \* number of service calls made so far
    quiet,          \* user whose pull-all last returned, no local write since
    stt,            \* the convertSpeechToText call in flight
    gen,            \* the generateAIReport call in flight
    resolved,       \* backend.ts RESOLVED_BASE_URL is set
    journal,        \* Redux state.journal
    settings,       \* Redux state.settings
    persisted,      \* AsyncStorage keys persist:journal and persist:settings
    modal,          \* AIReportModal: state, timersRef and position of its handler
    editor,         \* JournalEntryComponent (new-entry input): state and timer
    screen          \* JournalScreen: current date, displayed list, calls in flight

vars == <<session, marker, local, localSeq, reports, reportSeq, remote,
          remoteReports, now, passes, op, soPc, calls, quiet, stt, gen, resolved,
          journal, settings, persisted, modal, editor, screen>>

\* the state of the stores, the session observer and the journal services
storeVars == <<session, marker, local, localSeq, reports, reportSeq, remote,
               remoteReports, now, passes, op, soPc, calls, quiet>>

\* the state of the speech-to-text and report-generation requests
requestVars == <<stt, gen, resolved>>

\* the Redux store and its persisted copy
reduxVars == <<journal, settings, persisted>>

\* the components
uiVars == <<modal, editor, screen>>

\* AIReportModal as it is mounted
IdleModal ==
    [pc |-> "idle", prompt |-> "", isGenerating |-> FALSE, timers |-> 0,
     alert |-> "none", errorText |-> FALSE, reportsGenerated |-> 0]

\* autoSaveTimeoutRef.current: no timer pending
NoTimer == [armed |-> FALSE]

\* JournalEntryComponent with isNewEntry, as it is mounted
IdleEditor ==
    [content |-> "", hasChanges |-> FALSE, isSaving |-> FALSE,
     timer |-> NoTimer, saves |-> <<>>, saved |-> <<>>, typed |-> 0]

\* JournalScreen as it is mounted: the effect has called
\* loadEntriesForCurrentDate for the current date
IdleScreen ==
    [currentDate |-> "d1", currentDateEntries |-> {},
     loads |-> {[date |-> "d1", rows |-> {}, read |-> FALSE]},
     creating |-> NULL, started |-> 1]

\* settingsSlice: defaultPersonalization.fontSize
DefaultFontSize == 16

\* settingsSlice.setFontSize: the clamp's limits
MinFontSize == 14
MaxFontSize == 24

\* settingsSlice: defaultPersonalization (the fields the model follows)
defaultPersonalization == [fontSize |-> DefaultFontSize, autoSave |-> TRUE]

\* settingsSlice: initialState
InitialSettings ==
    [personalization |-> defaultPersonalization, onboardingCompleted |-> FALSE]

\* journalSlice: the dates an entry of the slice is kept under
SliceDates == {"d1"}

\* journalSlice: initialState (entries by date, "" where there is none)
InitialJournal ==
    [entries |-> [d \in SliceDates |-> ""], searchQuery |-> "",
     filteredEntries |-> {}]

\* what AsyncStorage holds under a key: nothing, or a serialized state
NotStored == [stored |-> FALSE]
Stored(state) == [stored |-> TRUE, state |-> state]

\* nothing stored under either key
NothingPersisted == [journal |-> NotStored, settings |-> NotStored]

IdleStt == [pc |-> "idle", result |-> "none"]

\* no request body built
NoBody == [prompt |-> 0, preferred_analysis_types |-> 0,
           date_range_days |-> 0, match_count |-> 0]

IdleGen == [pc |-> "idle", candidates |-> 0, candidate |-> 0,
            timer |-> "none", result |-> "none", body |-> NoBody]

IdleOp ==
    [kind |-> "none", pc |-> "idle", sess |-> NULL, now |-> 0, id |-> 0,
     row |-> NoRow, pushes |-> <<>>, embeds |-> 0]

Init ==
    /\ session = NULL
    /\ marker = NULL
    /\ local = EmptyTable
    /\ localSeq = 0
    /\ reports = EmptyReports
    /\ reportSeq = 0
    /\ remote \in {r \in [Users -> SeedStores] : r["B"] = EmptyTable}
    /\ remoteReports = [u \in Users |-> EmptyReports]
    /\ now = 1
    /\ passes = <<>>
    /\ op = IdleOp
    /\ soPc = "idle"
    /\ calls = 0
    /\ quiet = NULL
    /\ stt = IdleStt
    /\ gen = IdleGen
    /\ resolved = FALSE
    /\ journal = InitialJournal
    /\ settings = InitialSettings
    /\ persisted = NothingPersisted
    /\ modal = IdleModal
    /\ editor = IdleEditor
    /\ screen = IdleScreen


\* a guard without the lastPushedUserIdRef comparison
ShouldReconcile_NoMarker(userId, ref) == userId # NULL

\* ------------------------------------------------- session observer
\* AuthProvider, reconciliation effect: the guard of lines 60-62
ShouldReconcile(userId, ref) == userId # NULL /\ ref # userId

\* a marker that survives the signed-out state
ResetMarker_Keep(userId, ref) == ref

\* AuthProvider, marker reset effect (lines 87-91) for a session that does
\* not start a pass
ResetMarker(userId, ref) == IF userId = NULL THEN NULL ELSE ref

\* the pass the reconciliation effect starts (lines 65-83), at its first await
\* history: for each identifier held by both stores with different
\* updated-at values, the version with the newer updated-at
NewerVersions(l, r) ==
    [i \in Ids |->
        IF l[i] # NoRow /\ r[i] # NoRow /\ l[i].updated_at # r[i].updated_at
          THEN IF RemoteIsNewer(r[i].updated_at, l[i].updated_at) THEN r[i]
               ELSE IF RemoteIsNewer(l[i].updated_at, r[i].updated_at) THEN l[i]
               ELSE NoRow
          ELSE NoRow]

BlankPass ==
    [user |-> NULL, pc |-> "done",
     payload |-> EmptyTable, rpayload |-> EmptyReports,
     rows |-> <<>>, seen |-> NoRow,
     inserted |-> 0, updated |-> 0,
     pushOk |-> TRUE, pullOk |-> FALSE,
     lww |-> EmptyTable, missing |-> {}, older |-> {},
     idem |-> FALSE]

NewPass(userId) ==
    [BlankPass EXCEPT !.user = userId, !.pc = "pushEntriesRead",
                      !.lww = NewerVersions(local, remote[userId]),
                      !.idem = (quiet = userId)]

\* setSession(newSession), the render and the two effects that follow it
SessionEffects(newSession) ==
    /\ session' = newSession
    /\ IF ShouldReconcile(newSession, marker)
         THEN /\ passes' = Append(passes, NewPass(newSession))
              /\ marker' = newSession
         ELSE /\ passes' = passes
              /\ marker' = ResetMarker(newSession, marker)

\* supabase.auth.onAuthStateChange callback: sign-in, token refresh, user
\* switch, or a session ended by the auth provider
AuthStateChange(newSession) ==
    /\ SessionEffects(newSession)
    /\ UNCHANGED <<local, localSeq, reports, reportSeq, remote, remoteReports,
                   now, op, soPc, calls, quiet>>

\* ------------------------------------------------- reconciliation pass
PassFrame == UNCHANGED <<session, marker, now, op, soPc, calls>>

\* pushAllEntries, `await db.getAllAsync('SELECT * FROM journal_entries')`
EntriesPayload(table) ==
    [i \in Ids |-> IF table[i] # NoRow THEN EntryPayload(table[i]) ELSE NoRow]

PushAllEntries_Read(k) ==
    /\ passes[k].pc = "pushEntriesRead"
    /\ passes' = [passes EXCEPT ![k] =
          IF Present(local) = {}
            THEN [@ EXCEPT !.pc = "pushReportsRead"]
            ELSE [@ EXCEPT !.pc = "pushEntriesUpsert",
                           !.payload = EntriesPayload(local)]]
    /\ PassFrame
    /\ UNCHANGED <<local, localSeq, reports, reportSeq, remote, remoteReports, quiet>>

\* outcomes of a remote call: without an authenticated user it cannot succeed
RemoteOutcomes == IF session = NULL THEN {FALSE} ELSE BOOLEAN

\* an effect with one try/catch around all three steps: a failed upsert of
\* pushAllEntries ends the pass
PushAllEntries_Upsert_Abort(k) ==
    /\ passes[k].pc = "pushEntriesUpsert"
    /\ \E ok \in RemoteOutcomes :
         /\ remote' = IF ok
               THEN [remote EXCEPT ![session] = Upsert(@, passes[k].payload)]
               ELSE remote
         /\ passes' = [passes EXCEPT ![k] =
               [@ EXCEPT !.pc = IF ok THEN "pushReportsRead" ELSE "returned",
                         !.payload = EmptyTable, !.pushOk = @ /\ ok]]
    /\ PassFrame
    /\ UNCHANGED <<local, localSeq, reports, reportSeq, remoteReports, quiet>>

\* pushAllEntries, the batched upsert; an error is thrown to the effect,
\* which logs it and goes on
PushAllEntries_Upsert(k) ==
    /\ passes[k].pc = "pushEntriesUpsert"
    /\ \E ok \in RemoteOutcomes :
         /\ remote' = IF ok
               THEN [remote EXCEPT ![session] = Upsert(@, passes[k].payload)]
               ELSE remote
         /\ passes' = [passes EXCEPT ![k] =
               [@ EXCEPT !.pc = "pushReportsRead", !.payload = EmptyTable,
                         !.pushOk = @ /\ ok]]
    /\ PassFrame
    /\ UNCHANGED <<local, localSeq, reports, reportSeq, remoteReports, quiet>>

ReportsPayload(table) ==
    [i \in RIds |-> IF table[i] # NoRow THEN ReportPayload(table[i]) ELSE NoRow]

\* pushAllReports, `await db.getAllAsync('SELECT * FROM reports')`
PushAllReports_Read(k) ==
    /\ passes[k].pc = "pushReportsRead"
    /\ passes' = [passes EXCEPT ![k] =
          IF Present(reports) = {}
            THEN [@ EXCEPT !.pc = "pullSelect"]
            ELSE [@ EXCEPT !.pc = "pushReportsUpsert",
                           !.rpayload = ReportsPayload(reports)]]
    /\ PassFrame
    /\ UNCHANGED <<local, localSeq, reports, reportSeq, remote, remoteReports, quiet>>

\* pushAllReports, the batched upsert
PushAllReports_Upsert(k) ==
    /\ passes[k].pc = "pushReportsUpsert"
    /\ \E ok \in RemoteOutcomes :
         /\ remoteReports' = IF ok
               THEN [remoteReports EXCEPT ![session] = Upsert(@, passes[k].rpayload)]
               ELSE remoteReports
         /\ passes' = [passes EXCEPT ![k] =
               [@ EXCEPT !.pc = "pullSelect", !.rpayload = EmptyReports,
                         !.pushOk = @ /\ ok]]
    /\ PassFrame
    /\ UNCHANGED <<local, localSeq, reports, reportSeq, remote, quiet>>

\* the loop of pullAllEntries goes on with the rows left, or returns when
\* there is none (sync.ts:80, 105)
Iterate(p, rest) ==
    IF rest = <<>>
      THEN [p EXCEPT !.rows = rest, !.seen = NoRow, !.pc = "returned", !.pullOk = TRUE]
      ELSE [p EXCEPT !.rows = rest, !.seen = NoRow, !.pc = "pullRead"]

\* the history variable `quiet` after a step of pass p that leaves it as q
QuietAfter(q, wrote) ==
    IF q.pc = "returned" /\ q.pullOk THEN q.user
    ELSE IF wrote THEN NULL ELSE quiet

\* a pull that mirrors the remote store: local rows absent from the result
\* are deleted
PullAllEntries_Select_Mirror(k) ==
    /\ passes[k].pc = "pullSelect"
    /\ \E ok \in BOOLEAN :
         LET store == IF session = NULL THEN EmptyTable ELSE remote[session]
         IN IF ok
              THEN \E order \in OrderedSelects(store) :
                     LET q == Iterate([passes[k] EXCEPT
                                         !.missing = {j \in Present(store) : local[j] = NoRow},
                                         !.older = {j \in Present(store) :
                                            /\ local[j] # NoRow
                                            /\ RemoteIsNewer(store[j].updated_at,
                                                             local[j].updated_at)}],
                                      SelectRows(store, order))
                     IN /\ passes' = [passes EXCEPT ![k] = q]
                        /\ quiet' = QuietAfter(q, FALSE)
                        /\ local' = [i \in Ids |-> IF store[i] = NoRow THEN NoRow ELSE local[i]]
              ELSE /\ passes' = [passes EXCEPT ![k] = [@ EXCEPT !.pc = "returned", !.rows = <<>>, !.seen = NoRow]]
                   /\ quiet' = quiet
                   /\ local' = local
    /\ PassFrame
    /\ UNCHANGED <<localSeq, reports, reportSeq, remote, remoteReports>>

\* pullAllEntries, the select ordered by created_at (lines 58-75)
PullAllEntries_Select(k) ==
    /\ passes[k].pc = "pullSelect"
    /\ \E ok \in BOOLEAN :
         LET store == IF session = NULL THEN EmptyTable ELSE remote[session]
         IN IF ok
              THEN \E order \in OrderedSelects(store) :
                     LET q == Iterate([passes[k] EXCEPT
                                         !.missing = {j \in Present(store) : local[j] = NoRow},
                                         !.older = {j \in Present(store) :
                                            /\ local[j] # NoRow
                                            /\ RemoteIsNewer(store[j].updated_at,
                                                             local[j].updated_at)}],
                                      SelectRows(store, order))
                     IN /\ passes' = [passes EXCEPT ![k] = q]
                        /\ quiet' = QuietAfter(q, FALSE)
              ELSE /\ passes' = [passes EXCEPT ![k] = [@ EXCEPT !.pc = "returned", !.rows = <<>>, !.seen = NoRow]]
                   /\ quiet' = quiet
    /\ PassFrame
    /\ UNCHANGED <<local, localSeq, reports, reportSeq, remote, remoteReports>>

\* pullAllEntries, `await db.getFirstAsync('SELECT updated_at ...')` for the
\* current row and the branch taken on its result (lines 81-95)
PullAllEntries_Read(k) ==
    /\ passes[k].pc = "pullRead"
    /\ LET p == passes[k]
           r == Head(p.rows)
           l == local[r.client_id]
           q == IF l = NoRow
                  THEN [p EXCEPT !.pc = "pullWrite", !.seen = NoRow]
                  ELSE IF RemoteIsNewer(r.updated_at, l.updated_at)
                         THEN [p EXCEPT !.pc = "pullWrite",
                                        !.seen = [updated_at |-> l.updated_at]]
                         ELSE Iterate(p, Tail(p.rows))
       IN /\ passes' = [passes EXCEPT ![k] = q]
          /\ quiet' = QuietAfter(q, FALSE)
    /\ PassFrame
    /\ UNCHANGED <<local, localSeq, reports, reportSeq, remote, remoteReports>>

\* pullAllEntries, the awaited INSERT (lines 87-91) or UPDATE (lines 96-100)
PullAllEntries_Write(k) ==
    /\ passes[k].pc = "pullWrite"
    /\ LET p == passes[k]
           r == Head(p.rows)
       IN IF p.seen = NoRow
            THEN IF local[r.client_id] # NoRow
                   THEN \* PRIMARY KEY violation: the INSERT throws
                        /\ passes' = [passes EXCEPT ![k] = [@ EXCEPT !.pc = "returned", !.rows = <<>>, !.seen = NoRow]]
                        /\ UNCHANGED <<local, localSeq, quiet>>
                   ELSE LET q == Iterate([p EXCEPT !.inserted = @ + 1], Tail(p.rows))
                        IN /\ local' = [local EXCEPT ![r.client_id] = InsertedRow(r)]
                           /\ localSeq' = Max(localSeq, r.client_id)
                           /\ passes' = [passes EXCEPT ![k] = q]
                           /\ quiet' = QuietAfter(q, TRUE)
            ELSE LET q == Iterate([p EXCEPT !.updated = @ + 1], Tail(p.rows))
                 IN /\ local' = IF local[r.client_id] # NoRow
                                  THEN [local EXCEPT ![r.client_id] = OverwrittenRow(r)]
                                  ELSE local
                    /\ localSeq' = localSeq
                    /\ passes' = [passes EXCEPT ![k] = q]
                    /\ quiet' = QuietAfter(q, TRUE)
    /\ PassFrame
    /\ UNCHANGED <<reports, reportSeq, remote, remoteReports>>

\* ------------------------------------------------- journal service
OpFree == op.pc = "idle"

OpFrame == UNCHANGED <<session, marker, passes, soPc>>

Called == calls' = calls + 1

\* a check of the live auth session instead of the captured one
HasSession_Live(o) == session # NULL

\* journalService.ts:58 / 113 / 151: `session?.user?.id` of the session the
\* hook closed over when the call was made
HasSession(o) == o.sess # NULL

\* createEntry is called: entryDate and now are fixed (lines 34-35)
CreateEntry_Call(inp, d) ==
    /\ OpFree
    /\ Called
    /\ localSeq < MaxId
    /\ \E t \in now..MaxClock :
         /\ now' = t
         /\ op' = [kind |-> "create", pc |-> "insert", sess |-> session,
                   now |-> t, id |-> 0,
                   row |-> [title |-> inp.title, content |-> inp.content, date |-> d,
                            created_at |-> t, updated_at |-> t],
                   pushes |-> <<>>, embeds |-> 0]
    /\ UNCHANGED <<local, localSeq, reports, reportSeq, remote, remoteReports, quiet>>
    /\ OpFrame

\* createEntry, the awaited INSERT (lines 45-48): AUTOINCREMENT picks the id
CreateEntry_Insert ==
    /\ op.kind = "create" /\ op.pc = "insert"
    /\ localSeq < MaxId
    /\ LET newId == localSeq + 1
       IN /\ local' = [local EXCEPT ![newId] = op.row]
          /\ localSeq' = newId
          /\ op' = [op EXCEPT !.id = newId,
                              !.pc = IF HasSession(op) THEN "push" ELSE "done"]
    /\ quiet' = NULL
    /\ UNCHANGED <<reports, reportSeq, remote, remoteReports, now>>
    /\ OpFrame /\ UNCHANGED calls

\* updateEntry is called on a listed entry: now is fixed (line 91)
UpdateEntry_Call(id, inp) ==
    /\ OpFree
    /\ Called
    /\ local[id] # NoRow
    /\ \E t \in now..MaxClock :
         /\ now' = t
         /\ op' = [kind |-> "update", pc |-> "update", sess |-> session,
                   now |-> t, id |-> id,
                   row |-> [title |-> inp.title, content |-> inp.content],
                   pushes |-> <<>>, embeds |-> 0]
    /\ UNCHANGED <<local, localSeq, reports, reportSeq, remote, remoteReports, quiet>>
    /\ OpFrame

\* updateEntry, the awaited UPDATE (lines 101-104)
UpdateEntry_Update ==
    /\ op.kind = "update" /\ op.pc = "update"
    /\ IF local[op.id] # NoRow
         THEN /\ local' = [local EXCEPT ![op.id] =
                     [@ EXCEPT !.title = op.row.title, !.content = op.row.content,
                               !.updated_at = op.now]]
              /\ quiet' = NULL
         ELSE UNCHANGED <<local, quiet>>
    /\ op' = [op EXCEPT !.pc = IF HasSession(op) THEN "read" ELSE "done"]
    /\ UNCHANGED <<localSeq, reports, reportSeq, remote, remoteReports, now>>
    /\ OpFrame /\ UNCHANGED calls

\* updateEntry, the awaited read-back of the row (lines 115-119)
UpdateEntry_Read ==
    /\ op.kind = "update" /\ op.pc = "read"
    /\ op' = IF local[op.id] # NoRow
               THEN [op EXCEPT !.row = local[op.id], !.pc = "push"]
               ELSE [op EXCEPT !.pc = "done"]
    /\ UNCHANGED <<local, localSeq, reports, reportSeq, remote, remoteReports, now, quiet>>
    /\ OpFrame /\ UNCHANGED calls

\* a client_id read from the table's sequence when the push is made
PushedClientId_Latest(o) == localSeq

\* sync.ts:30-37, the client_id of the pushEntry payload
PushedClientId(o) == o.id

\* a pushEntry whose failure undoes the local write
PushEntry_Rollback ==
    /\ op.kind \in {"create", "update"} /\ op.pc = "push"
    /\ \E ok \in RemoteOutcomes :
         /\ remote' = IF ok /\ PushedClientId(op) \in Ids
               THEN [remote EXCEPT ![session][PushedClientId(op)] = EntryPayload(op.row)]
               ELSE remote
         /\ local' = IF ok THEN local ELSE [local EXCEPT ![op.id] = NoRow]
         /\ op' = [op EXCEPT !.pushes = Append(@, PushedClientId(op)),
                             !.pc = IF ok THEN "embed" ELSE "done"]
    /\ UNCHANGED <<localSeq, reports, reportSeq, remoteReports, now, quiet>>
    /\ OpFrame /\ UNCHANGED calls

\* pushEntry (sync.ts:29-44), awaited by createEntry and updateEntry; a
\* failure is caught by the caller (lines 77-79, 130-132)
PushEntry ==
    /\ op.kind \in {"create", "update"} /\ op.pc = "push"
    /\ \E ok \in RemoteOutcomes :
         /\ remote' = IF ok /\ PushedClientId(op) \in Ids
               THEN [remote EXCEPT ![session][PushedClientId(op)] = EntryPayload(op.row)]
               ELSE remote
         /\ op' = [op EXCEPT !.pushes = Append(@, PushedClientId(op)),
                             !.pc = IF ok THEN "embed" ELSE "done"]
    /\ UNCHANGED <<local, localSeq, reports, reportSeq, remoteReports, now, quiet>>
    /\ OpFrame /\ UNCHANGED calls

\* requestEmbeddingUpdate (embeddings.ts), awaited after a successful push;
\* its failure is caught (lines 74-76, 126-128)
RequestEmbeddingUpdate ==
    /\ op.kind \in {"create", "update"} /\ op.pc = "embed"
    /\ op' = [op EXCEPT !.embeds = @ + 1, !.pc = "done"]
    /\ UNCHANGED <<local, localSeq, reports, reportSeq, remote, remoteReports, now, quiet>>
    /\ OpFrame /\ UNCHANGED calls

\* deleteEntry is called on a listed entry
DeleteEntry_Call(id) ==
    /\ OpFree
    /\ Called
    /\ local[id] # NoRow
    /\ op' = [kind |-> "delete", pc |-> "delete", sess |-> session,
              now |-> now, id |-> id, row |-> NoRow,
              pushes |-> <<>>, embeds |-> 0]
    /\ UNCHANGED <<local, localSeq, reports, reportSeq, remote, remoteReports, now, quiet>>
    /\ OpFrame

\* deleteEntry, the awaited DELETE (line 144)
DeleteEntry_Delete ==
    /\ op.kind = "delete" /\ op.pc = "delete"
    /\ local' = [local EXCEPT ![op.id] = NoRow]
    /\ quiet' = IF local[op.id] # NoRow THEN NULL ELSE quiet
    /\ op' = [op EXCEPT !.pc = IF HasSession(op) THEN "deleteRemote" ELSE "done"]
    /\ UNCHANGED <<localSeq, reports, reportSeq, remote, remoteReports, now>>
    /\ OpFrame /\ UNCHANGED calls

\* deleteRemoteEntry (sync.ts:47-53); a failure is caught (lines 156-158)
DeleteRemoteEntry ==
    /\ op.kind = "delete" /\ op.pc = "deleteRemote"
    /\ \E ok \in RemoteOutcomes :
         remote' = IF ok THEN [remote EXCEPT ![session][op.id] = NoRow] ELSE remote
    /\ op' = [op EXCEPT !.pc = "done"]
    /\ UNCHANGED <<local, localSeq, reports, reportSeq, remoteReports, now, quiet>>
    /\ OpFrame /\ UNCHANGED calls

\* the service call returns to the screen that awaited it
Service_Return ==
    /\ op.pc = "done"
    /\ op' = IdleOp
    /\ UNCHANGED <<local, localSeq, reports, reportSeq, remote, remoteReports, now, quiet>>
    /\ OpFrame /\ UNCHANGED calls

\* ------------------------------------------------- reports service
\* createReport: now and the awaited INSERT (reportsService.ts createReport)
CreateReport_Insert ==
    /\ OpFree
    /\ Called
    /\ reportSeq < MaxReportId
    /\ \E t \in now..MaxClock :
         LET newId == reportSeq + 1
         IN /\ now' = t
            /\ reports' = [reports EXCEPT ![newId] =
                  [content |-> "rep", status |-> "completed",
                   createdAt |-> t, updatedAt |-> t]]
            /\ reportSeq' = newId
            /\ op' = [kind |-> "createReport", pc |-> "readBack", sess |-> session,
                      now |-> t, id |-> newId, row |-> NoRow,
                      pushes |-> <<>>, embeds |-> 0]
    /\ UNCHANGED <<local, localSeq, remote, remoteReports, quiet>>
    /\ OpFrame

\* createReport, the awaited read-back of the created row
CreateReport_ReadBack ==
    /\ op.kind = "createReport" /\ op.pc = "readBack"
    /\ op' = IF reports[op.id] # NoRow
               THEN [op EXCEPT !.row = reports[op.id], !.pc = "pushReport"]
               ELSE [op EXCEPT !.pc = "done"]
    /\ UNCHANGED <<local, localSeq, reports, reportSeq, remote, remoteReports, now, quiet>>
    /\ OpFrame /\ UNCHANGED calls

\* createReport, `supabase.auth.getSession()` and pushReport; a failure is
\* caught
CreateReport_Push ==
    /\ op.kind = "createReport" /\ op.pc = "pushReport"
    /\ IF session # NULL
         THEN \E ok \in BOOLEAN :
                /\ remoteReports' = IF ok
                      THEN [remoteReports EXCEPT ![session][op.id] = ReportPayload(op.row)]
                      ELSE remoteReports
                /\ op' = [op EXCEPT !.pushes = Append(@, op.id), !.pc = "done"]
         ELSE /\ remoteReports' = remoteReports
              /\ op' = [op EXCEPT !.pc = "done"]
    /\ UNCHANGED <<local, localSeq, reports, reportSeq, remote, now, quiet>>
    /\ OpFrame /\ UNCHANGED calls

\* deleteReport is called on a listed report: the awaited DELETE
\* (reportsService.ts deleteReport); `ok` is true as the row was there
DeleteReport_Delete(id) ==
    /\ OpFree
    /\ Called
    /\ reports[id] # NoRow
    /\ reports' = [reports EXCEPT ![id] = NoRow]
    /\ op' = [kind |-> "deleteReport", pc |-> "deleteRemoteReport", sess |-> session,
              now |-> now, id |-> id, row |-> NoRow,
              pushes |-> <<>>, embeds |-> 0]
    /\ UNCHANGED <<local, localSeq, reportSeq, remote, remoteReports, now, quiet>>
    /\ OpFrame

\* deleteReport, `supabase.auth.getSession()` and deleteRemoteReport; a
\* failure is caught
DeleteRemoteReport ==
    /\ op.kind = "deleteReport" /\ op.pc = "deleteRemoteReport"
    /\ IF session # NULL
         THEN \E ok \in BOOLEAN :
                remoteReports' = IF ok
                      THEN [remoteReports EXCEPT ![session][op.id] = NoRow]
                      ELSE remoteReports
         ELSE remoteReports' = remoteReports
    /\ op' = [op EXCEPT !.pc = "done"]
    /\ UNCHANGED <<local, localSeq, reports, reportSeq, remote, now, quiet>>
    /\ OpFrame /\ UNCHANGED calls

\* ------------------------------------------------------------ Redux slices
\* Math.max and Math.min
MathMax(a, b) == IF a >= b THEN a ELSE b
MathMin(a, b) == IF a <= b THEN a ELSE b

\* { ...state.personalization, ...action.payload }
Spread(base, payload) ==
    [k \in DOMAIN base |-> IF k \in DOMAIN payload THEN payload[k] ELSE base[k]]

\* settingsSlice reducers
updatePersonalization(state, payload) ==
    [state EXCEPT !.personalization = Spread(state.personalization, payload)]

setFontSize(state, n) ==
    [state EXCEPT !.personalization.fontSize =
                      MathMax(MinFontSize, MathMin(MaxFontSize, n))]

toggleAutoSave(state) ==
    [state EXCEPT !.personalization.autoSave = ~state.personalization.autoSave]

resetToDefaults(state) == [state EXCEPT !.personalization = defaultPersonalization]

\* String.prototype.includes and trim, on the texts the model uses
Includes(text, query) ==
    \/ query = ""
    \/ query = text
    \/ query \in {" ", "a", "b"} /\ text = "a b"

Trim(text) == IF text = " " THEN "" ELSE text

\* journalSlice reducers
createEntry(state, date, content) == [state EXCEPT !.entries[date] = content]

deleteEntry(state, date) == [state EXCEPT !.entries[date] = ""]

setSearchQuery(state, query) ==
    [state EXCEPT
        !.searchQuery = query,
        !.filteredEntries =
            IF Trim(query) = "" THEN {}
            ELSE {d \in SliceDates :
                    state.entries[d] # "" /\ Includes(state.entries[d], query)}]

clearAllEntries(state) ==
    [state EXCEPT !.entries = [d \in SliceDates |-> ""],
                  !.filteredEntries = {},
                  !.searchQuery = ""]

\* what a screen can dispatch
FontSizePayloads == {12, 20, 28}
PersonalizationPayloads ==
    {[fontSize |-> n] : n \in FontSizePayloads} \cup {[autoSave |-> FALSE]}
Contents == {"a b"}
Queries == {"", " ", "a"}

ReduxFrame == UNCHANGED <<storeVars, requestVars, uiVars, persisted>>

Dispatch_UpdatePersonalization ==
    /\ \E payload \in PersonalizationPayloads :
          settings' = updatePersonalization(settings, payload)
    /\ UNCHANGED journal
    /\ ReduxFrame

Dispatch_SetFontSize ==
    /\ \E n \in FontSizePayloads : settings' = setFontSize(settings, n)
    /\ UNCHANGED journal
    /\ ReduxFrame

Dispatch_ToggleAutoSave ==
    /\ settings' = toggleAutoSave(settings)
    /\ UNCHANGED journal
    /\ ReduxFrame

Dispatch_CreateEntry ==
    /\ \E d \in SliceDates, c \in Contents : journal' = createEntry(journal, d, c)
    /\ UNCHANGED settings
    /\ ReduxFrame

Dispatch_DeleteEntry ==
    /\ \E d \in SliceDates : journal' = deleteEntry(journal, d)
    /\ UNCHANGED settings
    /\ ReduxFrame

Dispatch_SetSearchQuery ==
    /\ \E q \in Queries : journal' = setSearchQuery(journal, q)
    /\ UNCHANGED settings
    /\ ReduxFrame

\* redux-persist writes the state of a persisted reducer under its key
Persist_Write ==
    /\ \E key \in {"journal", "settings"} :
          persisted' = [persisted EXCEPT
                          ![key] = Stored(IF key = "journal" THEN journal
                                          ELSE settings)]
    /\ UNCHANGED <<storeVars, requestVars, uiVars, journal, settings>>

\* ------------------------------------------------- signOut
SignOutFree == soPc = "idle"

\* signOut, `await supabase.auth.signOut()`: on success the provider emits
\* the session-null event; a failure is caught and signOut goes on
SignOut_Auth ==
    /\ SignOutFree
    /\ \/ SessionEffects(NULL)
       \/ UNCHANGED <<session, marker, passes>>
    /\ soPc' = "delEntries"
    /\ UNCHANGED <<local, localSeq, reports, reportSeq, remote, remoteReports,
                   now, op, calls, quiet>>

\* signOut, `await db.execAsync('DELETE FROM journal_entries;')`
SignOut_DeleteEntries ==
    /\ soPc = "delEntries"
    /\ local' = EmptyTable
    /\ quiet' = IF Present(local) # {} THEN NULL ELSE quiet
    /\ soPc' = "delReports"
    /\ UNCHANGED <<session, marker, localSeq, reports, reportSeq, remote,
                   remoteReports, now, passes, op, calls>>
    /\ UNCHANGED reduxVars

\* signOut, `await db.execAsync('DELETE FROM reports;')`
SignOut_DeleteReports ==
    /\ soPc = "delReports"
    /\ reports' = EmptyReports
    /\ soPc' = "redux"
    /\ UNCHANGED <<session, marker, local, localSeq, reportSeq, remote,
                   remoteReports, now, passes, op, calls, quiet>>
    /\ UNCHANGED reduxVars

\* signOut, `dispatch(clearAllEntriesAction()); dispatch(resetToDefaults());`
\* up to `await AsyncStorage.multiRemove(...)`
SignOut_Redux ==
    /\ soPc = "redux"
    /\ journal' = clearAllEntries(journal)
    /\ settings' = resetToDefaults(settings)
    /\ soPc' = "purge"
    /\ UNCHANGED <<session, marker, local, localSeq, reports, reportSeq, remote,
                   remoteReports, now, passes, op, calls, quiet, persisted>>

\* signOut, `await AsyncStorage.multiRemove([...]); await persistor.purge();`
\* then returning; a rejection is caught and leaves the stored copy
SignOut_Purge ==
    /\ soPc = "purge"
    /\ \/ persisted' = NothingPersisted
       \/ UNCHANGED persisted
    /\ soPc' = "idle"
    /\ UNCHANGED <<session, marker, local, localSeq, reports, reportSeq, remote,
                   remoteReports, now, passes, op, calls, quiet, journal, settings>>

\* ------------------------------------------------------------ speech to text
\* Every await of sttService is a step; a fetch settles by resolving with an ok
\* or a non-ok response, or by rejecting.  No fetch of the service carries an
\* abort signal and no timer is armed except the pause between two polls.

SttFrame == UNCHANGED <<storeVars, reduxVars, uiVars, gen, resolved>>

\* what a fetch can settle to
FetchOutcomes == {"ok", "notOk", "rejected"}

\* the status field of a transcript the polling endpoint answers with
JobStatuses == {"queued", "processing", "completed", "error"}

\* convertSpeechToText(audioUri) -> assemblyAITranscribe(audioUri)
ConvertSpeechToText_Call ==
    /\ stt.pc = "idle"
    /\ stt' = [pc |-> "connectivity", result |-> "none"]
    /\ SttFrame

\* assemblyAITranscribe: the connectivity test; only a rejection throws
Stt_Connectivity ==
    /\ stt.pc = "connectivity"
    /\ \E o \in FetchOutcomes :
          stt' = IF o = "rejected"
                 THEN [pc |-> "failed", result |-> "noConnectivity"]
                 ELSE [stt EXCEPT !.pc = "readAudio"]
    /\ SttFrame

\* uploadToAssemblyAI: fetch(audioUri) and response.blob()
Stt_ReadAudio ==
    /\ stt.pc = "readAudio"
    /\ \E o \in FetchOutcomes :
          stt' = IF o = "ok"
                 THEN [stt EXCEPT !.pc = "upload"]
                 ELSE [pc |-> "failed", result |-> "uploadFailed"]
    /\ SttFrame

\* uploadToAssemblyAI: the POST to /upload and uploadResponse.json()
Stt_Upload ==
    /\ stt.pc = "upload"
    /\ \E o \in FetchOutcomes :
          stt' = IF o = "ok"
                 THEN [stt EXCEPT !.pc = "submit"]
                 ELSE [pc |-> "failed", result |-> "uploadFailed"]
    /\ SttFrame

\* submitAssemblyAIJob
Stt_Submit ==
    /\ stt.pc = "submit"
    /\ \E o \in FetchOutcomes :
          stt' = IF o = "ok"
                 THEN [stt EXCEPT !.pc = "poll"]
                 ELSE [pc |-> "failed", result |-> "submitFailed"]
    /\ SttFrame

\* pollAssemblyAIResult: one turn of the while (true) loop up to the pause
Stt_Poll ==
    /\ stt.pc = "poll"
    /\ \E o \in FetchOutcomes, status \in JobStatuses :
          stt' = IF o # "ok" THEN [pc |-> "failed", result |-> "pollFailed"]
                 ELSE IF status = "completed"
                      THEN [pc |-> "returned", result |-> "text"]
                 ELSE IF status = "error"
                      THEN [pc |-> "failed", result |-> "transcriptionFailed"]
                 ELSE [stt EXCEPT !.pc = "wait"]
    /\ SttFrame

\* pollAssemblyAIResult: the pause elapses and the loop turns again
Stt_Wait ==
    /\ stt.pc = "wait"
    /\ stt' = [stt EXCEPT !.pc = "poll"]
    /\ SttFrame

\* the caller's await returns or its catch runs
Stt_Return ==
    /\ stt.pc \in {"returned", "failed"}
    /\ stt' = IdleStt
    /\ SttFrame

SttStep ==
    \/ Stt_Connectivity
    \/ Stt_ReadAudio
    \/ Stt_Upload
    \/ Stt_Submit
    \/ Stt_Poll
    \/ Stt_Wait
    \/ Stt_Return

\* -------------------------------------------------------- report generation
GenFrame == UNCHANGED <<storeVars, reduxVars, uiVars, stt>>

\* resolveBackendBaseUrl: the longest candidate list (seed and two fallbacks)
MaxCandidates == 3

\* a fetch that carries an abort signal also settles when its timer fires
SignalledOutcomes == FetchOutcomes \cup {"aborted"}

\* a parameter that is omitted (undefined); NaN is the number NaN
Undefined == -2

\* generateAIReport: the limits and defaults of the request body
MaxPromptChars == 500
MaxAnalysisTypes == 3
MinDateRangeDays == 1
MaxDateRangeDays == 365
DefaultDateRangeDays == 30
MinMatchCount == 1
MaxMatchCount == 50
DefaultMatchCount == 10

\* Math.max and Math.min of numbers: NaN when an argument is NaN
NumMax(a, b) == IF a = NaN \/ b = NaN THEN NaN ELSE MathMax(a, b)
NumMin(a, b) == IF a = NaN \/ b = NaN THEN NaN ELSE MathMin(a, b)

\* `value ?? fallback`
Coalesce(value, fallback) == IF value = Undefined THEN fallback ELSE value

\* String.prototype.slice(0, n) and Array.prototype.slice(0, n), by length
SliceLength(length, n) == MathMin(length, n)

\* generateAIReport: the body of the request, a prompt and a list of
\* analysis types being represented by their lengths
RequestBody(params) ==
    [prompt |-> SliceLength(Coalesce(params.promptLength, 0), MaxPromptChars),
     preferred_analysis_types |->
         SliceLength(Coalesce(params.analysisTypes, 0), MaxAnalysisTypes),
     date_range_days |->
         NumMin(MaxDateRangeDays,
                NumMax(MinDateRangeDays,
                       Coalesce(params.dateRangeDays, DefaultDateRangeDays))),
     match_count |->
         NumMin(MaxMatchCount,
                NumMax(MinMatchCount,
                       Coalesce(params.matchCount, DefaultMatchCount)))]

\* the call of the report modal (app/reports.tsx:195-201)
ModalParams ==
    [promptLength |-> 1, analysisTypes |-> 0, dateRangeDays |-> 30,
     matchCount |-> Undefined, userToken |-> TRUE]

\* the parameters generateAIReport is called with
ParamInputs ==
    {ModalParams,
     [promptLength |-> 501, analysisTypes |-> 4, dateRangeDays |-> 400,
      matchCount |-> 60, userToken |-> FALSE],
     [promptLength |-> 0, analysisTypes |-> 0, dateRangeDays |-> 0,
      matchCount |-> 0, userToken |-> TRUE],
     [promptLength |-> 500, analysisTypes |-> 3, dateRangeDays |-> Undefined,
      matchCount |-> Undefined, userToken |-> FALSE],
     [promptLength |-> Undefined, analysisTypes |-> Undefined, dateRangeDays |-> NaN,
      matchCount |-> 10, userToken |-> TRUE],
     [promptLength |-> 1, analysisTypes |-> 1, dateRangeDays |-> 365,
      matchCount |-> NaN, userToken |-> FALSE]}

\* generateAIReport(params) with a candidate list of n bases, up to its
\* first await
GenCalled(params, n) ==
    [IdleGen EXCEPT
        !.pc = IF params.userToken THEN "resolve" ELSE "getSession",
        !.candidates = n,
        !.body = RequestBody(params)]

GenerateAIReport_Call ==
    /\ gen.pc = "idle"
    /\ \E params \in ParamInputs, n \in 1..MaxCandidates :
          gen' = GenCalled(params, n)
    /\ UNCHANGED resolved
    /\ GenFrame

\* generateAIReport: await supabase.auth.getSession()
Gen_GetSession ==
    /\ gen.pc = "getSession"
    /\ \E settled \in {"resolved", "rejected"} :
          gen' = IF settled = "resolved"
                 THEN [gen EXCEPT !.pc = "resolve"]
                 ELSE [gen EXCEPT !.pc = "thrown", !.result = "getSession rejected"]
    /\ UNCHANGED resolved
    /\ GenFrame

\* resolveBackendBaseUrl up to its first await, or its cached return
Gen_Resolve ==
    /\ gen.pc = "resolve"
    /\ gen' = IF resolved
              THEN [gen EXCEPT !.pc = "fetch", !.timer = "armed"]
              ELSE [gen EXCEPT !.pc = "probe", !.candidate = 1, !.timer = "armed"]
    /\ UNCHANGED resolved
    /\ GenFrame

\* resolveBackendBaseUrl: one turn of the candidate loop, then the fallback
Gen_Probe ==
    /\ gen.pc = "probe"
    /\ \E o \in SignalledOutcomes :
          IF o # "ok" /\ gen.candidate < gen.candidates
          THEN /\ gen' = [gen EXCEPT !.candidate = gen.candidate + 1]
               /\ UNCHANGED resolved
          ELSE /\ gen' = [gen EXCEPT !.pc = "fetch"]
               /\ resolved' = TRUE
    /\ GenFrame

\* generateAIReport: the POST to /generate-report settles
Gen_Fetch ==
    /\ gen.pc = "fetch"
    /\ \E o \in SignalledOutcomes :
          gen' = CASE o = "ok" -> [gen EXCEPT !.pc = "body", !.timer = "none"]
                   [] o = "notOk" -> [gen EXCEPT !.pc = "errorText", !.timer = "none"]
                   [] o = "aborted" ->
                        [gen EXCEPT !.pc = "returned", !.timer = "none",
                                    !.result = "Network timeout"]
                   [] OTHER ->
                        [gen EXCEPT !.pc = "returned",
                                    !.result = "Network request failed"]
    /\ UNCHANGED resolved
    /\ GenFrame

\* generateAIReport: res.text().catch(() => '') of a non-ok response
Gen_ErrorText ==
    /\ gen.pc = "errorText"
    /\ gen' = [gen EXCEPT !.pc = "returned", !.result = "HTTP error"]
    /\ UNCHANGED resolved
    /\ GenFrame

\* generateAIReport: res.json() of an ok response, or the catch when it rejects
Gen_Body ==
    /\ gen.pc = "body"
    /\ \E r \in {"report", "No report returned", "Network request failed"} :
          gen' = [gen EXCEPT !.pc = "returned", !.result = r]
    /\ UNCHANGED resolved
    /\ GenFrame

\* the caller's await returns, or throws
Gen_Return ==
    /\ gen.pc \in {"returned", "thrown"}
    /\ gen' = IdleGen
    /\ UNCHANGED resolved
    /\ GenFrame

GenStep ==
    \/ Gen_GetSession
    \/ Gen_Resolve
    \/ Gen_Probe
    \/ Gen_Fetch
    \/ Gen_ErrorText
    \/ Gen_Body
    \/ Gen_Return

\* ------------------------------------------------------------ report modal
\* AIReportModal.handleGenerateReport (app/reports.tsx)

\* the step timers handleGenerateReport arms (5 s, 10 s, 15 s)
StepTimers == 3

Prompts == {"", " ", "p"}

ModalFrame == UNCHANGED <<reduxVars, editor, screen, stt>>

\* the prompt field is edited
Modal_SetPrompt ==
    /\ \E p \in Prompts : p # modal.prompt /\ modal' = [modal EXCEPT !.prompt = p]
    /\ UNCHANGED <<storeVars, gen, resolved>>
    /\ ModalFrame

\* handleGenerateReport returning at one of its two guards
Modal_Rejected ==
    /\ modal.pc = "idle"
    /\ Trim(modal.prompt) = "" \/ session = NULL
    /\ modal' = [modal EXCEPT
                   !.alert = IF Trim(modal.prompt) = "" THEN "Missing Prompt"
                             ELSE "You might not be logged in."]
    /\ UNCHANGED <<storeVars, gen, resolved>>
    /\ ModalFrame

\* handleGenerateReport without the guard on the session
Modal_Generate_NoSessionGuard ==
    /\ modal.pc = "idle"
    /\ Trim(modal.prompt) # ""
    /\ gen.pc = "idle"
    /\ reportSeq < MaxReportId
    /\ modal' = [modal EXCEPT !.pc = "generating", !.prompt = "",
                              !.isGenerating = TRUE, !.timers = StepTimers]
    /\ \E n \in 1..MaxCandidates : gen' = GenCalled(ModalParams, n)
    /\ UNCHANGED <<storeVars, resolved>>
    /\ ModalFrame

\* handleGenerateReport past its guards, up to `await generateAIReport(...)`
Modal_Generate ==
    /\ modal.pc = "idle"
    /\ Trim(modal.prompt) # ""
    /\ session # NULL
    /\ gen.pc = "idle"
    /\ reportSeq < MaxReportId
    /\ modal' = [modal EXCEPT !.pc = "generating", !.prompt = "",
                              !.isGenerating = TRUE, !.timers = StepTimers]
    /\ \E n \in 1..MaxCandidates : gen' = GenCalled(ModalParams, n)
    /\ UNCHANGED <<storeVars, resolved>>
    /\ ModalFrame

\* one of the step timers fires
Modal_StepTimer ==
    /\ modal.timers > 0
    /\ modal' = [modal EXCEPT !.timers = modal.timers - 1]
    /\ UNCHANGED <<storeVars, gen, resolved>>
    /\ ModalFrame

\* a finally block that leaves the timers armed
Finished_TimersLeft(m) == [m EXCEPT !.pc = "idle", !.isGenerating = FALSE]

\* the finally block: setIsGenerating(false) and the timers cleared
Finished(m) == [m EXCEPT !.pc = "idle", !.isGenerating = FALSE, !.timers = 0]

\* generateAIReport returned without success and a report: the else branch
\* and the finally block
Modal_Failed ==
    /\ modal.pc = "generating"
    /\ gen.pc = "returned"
    /\ gen.result # "report"
    /\ modal' = Finished([modal EXCEPT !.errorText = TRUE, !.prompt = ""])
    /\ gen' = IdleGen
    /\ UNCHANGED <<storeVars, resolved>>
    /\ ModalFrame

\* generateAIReport returned success and a report: up to the INSERT of
\* `await createReport(...)`
Modal_Succeeded ==
    /\ modal.pc = "generating"
    /\ gen.pc = "returned"
    /\ gen.result = "report"
    /\ CreateReport_Insert
    /\ modal' = [modal EXCEPT !.pc = "creating"]
    /\ gen' = IdleGen
    /\ UNCHANGED resolved
    /\ ModalFrame

\* createReport returned: onReportGenerated if it returned a row, then the
\* finally block
Modal_Created ==
    /\ modal.pc = "creating"
    /\ op.kind = "createReport"
    /\ Service_Return
    /\ modal' = Finished([modal EXCEPT
                            !.prompt = "",
                            !.reportsGenerated =
                                IF op.row # NoRow THEN @ + 1 ELSE @])
    /\ UNCHANGED <<gen, resolved>>
    /\ ModalFrame

\* ------------------------------------------------------------ entry editor
\* JournalEntryComponent with isNewEntry and no entry (the new-entry input).
\* A handler reads the state of the render it was created in: the timer
\* callback keeps the isSaving of the render in which the text was typed.

EditorTexts == {"", " ", "x"}

EditorFrame == UNCHANGED <<storeVars, requestVars, reduxVars, modal, screen>>

\* handleAutoSave(text) as created in a render whose isSaving is `saving`,
\* up to `await onSave(title, text)`
AutoSaveStarted(e, text, saving) ==
    IF Trim(text) = "" \/ saving THEN e
    ELSE [e EXCEPT !.isSaving = TRUE, !.saves = Append(e.saves, text)]

\* handleContentChange(text): the text field is edited
Editor_Change ==
    /\ editor.typed < MaxEdits
    /\ \E text \in EditorTexts :
          /\ text # editor.content
          /\ editor' = [editor EXCEPT
                          !.content = text,
                          !.hasChanges = (text # ""),
                          !.timer = [armed |-> TRUE, text |-> text,
                                     isSaving |-> editor.isSaving],
                          !.typed = IF Trim(text) # "" THEN @ + 1 ELSE @]
    /\ EditorFrame

\* the debounce timer of handleContentChange fires
Editor_TimerFires ==
    /\ editor.timer.armed
    /\ Len(editor.saves) + Len(editor.saved) < MaxSaves
    /\ editor' =
         LET e == [editor EXCEPT !.timer = NoTimer]
         IN IF Trim(editor.timer.text) # "" /\ editor.timer.text # ""
            THEN AutoSaveStarted(e, editor.timer.text, editor.timer.isSaving)
            ELSE e
    /\ EditorFrame

\* handleManualSave: the save button is pressed
Editor_ManualSave ==
    /\ Trim(editor.content) # ""
    /\ ~editor.isSaving
    /\ Len(editor.saves) + Len(editor.saved) < MaxSaves
    /\ editor' = AutoSaveStarted(editor, editor.content, editor.isSaving)
    /\ EditorFrame

\* s without its i-th element
Without(s, i) == SubSeq(s, 1, i - 1) \o SubSeq(s, i + 1, Len(s))

\* handleAutoSave: `await onSave(title, text)` resolves; the input is
\* cleared and the finally block runs
Editor_SaveResolved ==
    /\ \E i \in 1..Len(editor.saves) :
          editor' = [editor EXCEPT
                       !.saves = Without(editor.saves, i),
                       !.saved = Append(editor.saved, editor.saves[i]),
                       !.content = "",
                       !.hasChanges = FALSE,
                       !.isSaving = FALSE]
    /\ EditorFrame

\* handleAutoSave: `await onSave(title, text)` rejects; catch and finally
Editor_SaveRejected ==
    /\ \E i \in 1..Len(editor.saves) :
          editor' = [editor EXCEPT
                       !.saves = Without(editor.saves, i),
                       !.isSaving = FALSE]
    /\ EditorFrame

\* ----------------------------------------------------------- JournalScreen
\* The list the screen displays (currentDateEntries, as the entries' id and
\* date), the date it shows (state.journal.currentDate), the calls of
\* loadEntriesForCurrentDate in flight, each with the currentDate of the
\* render that started it, and the date handleCreateEntry closed over.

ScreenDates == {"d1", "d2"}

ScreenFrame == UNCHANGED <<requestVars, reduxVars, modal, editor>>

\* getEntriesForDate: SELECT * FROM journal_entries WHERE date = ?
getEntriesForDate(d) ==
    {[id |-> i, date |-> local[i].date] : i \in {j \in Present(local) : local[j].date = d}}

\* a call of loadEntriesForCurrentDate in the render showing date d
LoadStarted(sc, d) ==
    [sc EXCEPT !.loads = @ \cup {[date |-> d, rows |-> {}, read |-> FALSE]},
               !.started = @ + 1]

\* handleDateChange: dispatch(setCurrentDate(date)); the effect on
\* [currentDate] then calls loadEntriesForCurrentDate
Screen_DateChange ==
    /\ screen.started < MaxLoads
    /\ \E d \in ScreenDates \ {screen.currentDate} :
         screen' = LoadStarted([screen EXCEPT !.currentDate = d], d)
    /\ UNCHANGED storeVars
    /\ ScreenFrame

\* useFocusEffect: the screen gains focus
Screen_Focus ==
    /\ screen.started < MaxLoads
    /\ screen' = LoadStarted(screen, screen.currentDate)
    /\ UNCHANGED storeVars
    /\ ScreenFrame

\* loadEntriesForCurrentDate: the query of getEntriesForDate runs
Screen_LoadRead ==
    /\ \E l \in screen.loads :
         /\ ~l.read
         /\ screen' = [screen EXCEPT
                         !.loads = (@ \ {l}) \cup
                                   {[l EXCEPT !.rows = getEntriesForDate(l.date),
                                              !.read = TRUE]}]
    /\ UNCHANGED storeVars
    /\ ScreenFrame

\* loadEntriesForCurrentDate: the await resolves, setCurrentDateEntries
Screen_LoadResolved ==
    /\ \E l \in screen.loads :
         /\ l.read
         /\ screen' = [screen EXCEPT !.loads = @ \ {l},
                                     !.currentDateEntries = l.rows]
    /\ UNCHANGED storeVars
    /\ ScreenFrame

\* loadEntriesForCurrentDate: the await rejects, the catch logs
Screen_LoadRejected ==
    /\ \E l \in screen.loads :
         /\ ~l.read
         /\ screen' = [screen EXCEPT !.loads = @ \ {l}]
    /\ UNCHANGED storeVars
    /\ ScreenFrame

\* handleCreateEntry: journalService.createEntry(title, content, currentDate)
Screen_Create ==
    /\ screen.creating = NULL
    /\ calls < MaxCalls
    /\ \E inp \in NewTexts : CreateEntry_Call(inp, screen.currentDate)
    /\ screen' = [screen EXCEPT !.creating = screen.currentDate]
    /\ ScreenFrame

\* createEntry's INSERT while handleCreateEntry awaits
Screen_CreateInsert ==
    /\ screen.creating # NULL
    /\ CreateEntry_Insert
    /\ UNCHANGED screen
    /\ ScreenFrame

\* handleCreateEntry after the await: the new entry, with the date of the
\* render that started the call, is put in front of the list
Screen_CreateReturned ==
    /\ screen.creating # NULL
    /\ Service_Return
    /\ screen' = [screen EXCEPT
                    !.currentDateEntries =
                        @ \cup {[id |-> op.id, date |-> screen.creating]},
                    !.creating = NULL]
    /\ ScreenFrame

\* ------------------------------------------------- next-state relation
\* a pass that ends by pulling the user's reports into the local table
Reconcile_End_PullReports(k) ==
    /\ passes[k].pc = "returned"
    /\ passes' = [passes EXCEPT ![k] = BlankPass]
    /\ reports' = IF session = NULL THEN reports
                  ELSE [i \in RIds |-> IF reports[i] = NoRow
                                         THEN remoteReports[session][i]
                                         ELSE reports[i]]
    /\ PassFrame
    /\ UNCHANGED <<local, localSeq, reportSeq, remote, remoteReports, quiet>>

\* the async function of the reconciliation effect ends after the last
\* try/catch (part_005:78-83); nothing keeps its results
Reconcile_End(k) ==
    /\ passes[k].pc = "returned"
    /\ passes' = [passes EXCEPT ![k] = BlankPass]
    /\ PassFrame
    /\ UNCHANGED <<local, localSeq, reports, reportSeq, remote, remoteReports, quiet>>

PassStep ==
    \E k \in 1..Len(passes) :
        \/ Reconcile_End(k)
        \/ PushAllEntries_Read(k)
        \/ PushAllEntries_Upsert(k)
        \/ PushAllReports_Read(k)
        \/ PushAllReports_Upsert(k)
        \/ PullAllEntries_Select(k)
        \/ PullAllEntries_Read(k)
        \/ PullAllEntries_Write(k)

\* the session observer and signOut
SessionEvent(passCap) ==
    \E s \in Users \cup {NULL} :
        /\ ShouldReconcile(s, marker) => Len(passes) < passCap
        /\ AuthStateChange(s)

AuthStart(passCap) ==
    \/ SessionEvent(passCap)
    \/ SignOut_Auth

\* a service function is called from a screen
ServiceStart ==
    /\ calls < MaxCalls
    /\ \/ \E inp \in NewTexts, d \in EntryDates : CreateEntry_Call(inp, d)
       \/ \E id \in Ids, inp \in EditedTexts : UpdateEntry_Call(id, inp)
       \/ \E id \in Ids : DeleteEntry_Call(id)
       \/ CreateReport_Insert

\* an awaited step of signOut completes
SignOutStep ==
    \/ SignOut_DeleteEntries
    \/ SignOut_DeleteReports
    \/ SignOut_Redux
    \/ SignOut_Purge

\* an awaited step of a service call completes
ServiceStep ==
    \/ CreateEntry_Insert
    \/ UpdateEntry_Update
    \/ UpdateEntry_Read
    \/ PushEntry
    \/ RequestEmbeddingUpdate
    \/ DeleteEntry_Delete
    \/ DeleteRemoteEntry
    \/ CreateReport_ReadBack
    \/ CreateReport_Push
    \/ Service_Return

\* Every handler interleaved with every other at each await.
Next ==
    \/ AuthStart(MaxPassesWithCalls) /\ UNCHANGED <<requestVars, reduxVars, uiVars>>
    \/ ServiceStart /\ UNCHANGED <<requestVars, reduxVars, uiVars>>
    \/ PassStep /\ UNCHANGED <<requestVars, reduxVars, uiVars>>
    \/ SignOutStep /\ UNCHANGED <<requestVars, uiVars>>
    \/ ServiceStep /\ UNCHANGED <<requestVars, reduxVars, uiVars>>

Spec == Init /\ [][Next]_vars

\* The session observer, its passes and signOut, interleaved at each await;
\* no service call is made.
NextAuth ==
    \/ AuthStart(MaxPasses) /\ UNCHANGED <<requestVars, reduxVars, uiVars>>
    \/ PassStep /\ UNCHANGED <<requestVars, reduxVars, uiVars>>
    \/ SignOutStep /\ UNCHANGED <<requestVars, uiVars>>

SpecAuth == Init /\ [][NextAuth]_vars

\* Sequential executions: a handler is called only when no other handler is
\* running, so every async function runs from call to return undisturbed.
Busy ==
    \/ ~OpFree
    \/ ~SignOutFree
    \/ \E k \in 1..Len(passes) : passes[k].pc # "done"

NextSeq ==
    \/ ~Busy /\ AuthStart(MaxPasses) /\ UNCHANGED <<requestVars, reduxVars, uiVars>>
    \/ ~Busy /\ ServiceStart /\ UNCHANGED <<requestVars, reduxVars, uiVars>>
    \/ PassStep /\ UNCHANGED <<requestVars, reduxVars, uiVars>>
    \/ SignOutStep /\ UNCHANGED <<requestVars, uiVars>>
    \/ ServiceStep /\ UNCHANGED <<requestVars, reduxVars, uiVars>>

SpecSeq == Init /\ [][NextSeq]_vars

\* The two outbound requests alone: every awaited promise of a call in flight
\* eventually settles (the event loop runs it), while what it settles to, and
\* whether the user starts a call, is left open.
NextRequests ==
    \/ ConvertSpeechToText_Call
    \/ GenerateAIReport_Call
    \/ Stt_Connectivity
    \/ Stt_ReadAudio
    \/ Stt_Upload
    \/ Stt_Submit
    \/ Stt_Poll
    \/ Stt_Wait
    \/ Stt_Return
    \/ Gen_GetSession
    \/ Gen_Resolve
    \/ Gen_Probe
    \/ Gen_Fetch
    \/ Gen_ErrorText
    \/ Gen_Body
    \/ Gen_Return

SpecRequests ==
    Init /\ [][NextRequests]_vars /\ WF_vars(SttStep) /\ WF_vars(GenStep)

\* The Redux store under the dispatches of the screens, redux-persist and
\* signOut.
NextRedux ==
    \/ Dispatch_UpdatePersonalization
    \/ Dispatch_SetFontSize
    \/ Dispatch_ToggleAutoSave
    \/ Dispatch_CreateEntry
    \/ Dispatch_DeleteEntry
    \/ Dispatch_SetSearchQuery
    \/ Persist_Write
    \/ SignOut_Auth /\ UNCHANGED <<requestVars, reduxVars, uiVars>>
    \/ SignOut_DeleteEntries /\ UNCHANGED <<requestVars, uiVars>>
    \/ SignOut_DeleteReports /\ UNCHANGED <<requestVars, uiVars>>
    \/ SignOut_Redux /\ UNCHANGED <<requestVars, uiVars>>
    \/ SignOut_Purge /\ UNCHANGED <<requestVars, uiVars>>

SpecRedux == Init /\ [][NextRedux]_vars

\* The report modal with the request it makes and the report it creates,
\* under session changes and the pass a sign-in starts.
NextModal ==
    \/ Modal_SetPrompt
    \/ Modal_Rejected
    \/ Modal_Generate
    \/ Modal_StepTimer
    \/ Modal_Failed
    \/ Modal_Succeeded
    \/ Modal_Created
    \/ GenStep /\ gen.pc # "returned"
    \/ CreateReport_ReadBack /\ UNCHANGED <<requestVars, reduxVars, uiVars>>
    \/ CreateReport_Push /\ UNCHANGED <<requestVars, reduxVars, uiVars>>
    \/ SessionEvent(MaxPassesWithCalls) /\ UNCHANGED <<requestVars, reduxVars, uiVars>>
    \/ PassStep /\ UNCHANGED <<requestVars, reduxVars, uiVars>>

SpecModal == Init /\ [][NextModal]_vars

\* The new-entry input under edits, its timer, the save button and the
\* completion of the saves it started.
NextEditor ==
    \/ Editor_Change
    \/ Editor_TimerFires
    \/ Editor_ManualSave
    \/ Editor_SaveResolved
    \/ Editor_SaveRejected

SpecEditor == Init /\ [][NextEditor]_vars

\* JournalScreen under date changes, focus, loads and creations of a
\* signed-out user.
NextScreen ==
    \/ Screen_DateChange
    \/ Screen_Focus
    \/ Screen_LoadRead
    \/ Screen_LoadResolved
    \/ Screen_LoadRejected
    \/ Screen_Create
    \/ Screen_CreateInsert
    \/ Screen_CreateReturned

SpecScreen == Init /\ [][NextScreen]_vars

\* The sync operations among the service calls, deleteReport included, and
\* the passes of the session observer, interleaved at each await; signOut is
\* not called.
NextSync ==
    \/ SessionEvent(MaxPassesWithCalls) /\ UNCHANGED <<requestVars, reduxVars, uiVars>>
    \/ ServiceStart /\ UNCHANGED <<requestVars, reduxVars, uiVars>>
    \/ /\ calls < MaxCalls
       /\ \E id \in RIds : DeleteReport_Delete(id)
       /\ UNCHANGED <<requestVars, reduxVars, uiVars>>
    \/ PassStep /\ UNCHANGED <<requestVars, reduxVars, uiVars>>
    \/ ServiceStep /\ UNCHANGED <<requestVars, reduxVars, uiVars>>
    \/ DeleteRemoteReport /\ UNCHANGED <<requestVars, reduxVars, uiVars>>

SpecSync == Init /\ [][NextSync]_vars

\* ================================================================ claims

\* the pass whose step this is, if the step is a step of pass k
PassMoved(k) == passes'[k] # passes[k]

\* C1: pullAllEntries never overwrites a local entry whose updated-at is
\* greater than or equal to the incoming remote updated-at, nor one with an
\* unparseable timestamp on either side: whenever the UPDATE of the pull
\* loop changes a local row, that row's updated-at is parseable and strictly
\* older than the remote record's, in every interleaving.
C1_NeverOverwritesNewerLocal ==
    [][\A k \in 1..Len(passes) :
         LET p == passes[k]
             id == Head(p.rows).client_id
         IN (/\ p.pc = "pullWrite" /\ PassMoved(k)
             /\ p.seen # NoRow
             /\ local[id] # NoRow
             /\ local'[id] # local[id])
            => RemoteIsNewer(Head(p.rows).updated_at, local[id].updated_at)]_vars

\* C2: if local entry i exists and the remote record with client_id i has a
\* parseable updated-at strictly newer than the local one, then when
\* pullAllEntries returns local entry i holds the remote record's title,
\* content, date, created-at and updated-at.
C2_NewerRemoteWins ==
    \A k \in 1..Len(passes) :
        LET p == passes[k]
        IN (p.pc = "returned" /\ p.pullOk) =>
              \A j \in p.older : local[j] = remote[p.user][j]

C2_Witness ==
    \E k \in 1..Len(passes) :
        passes[k].pc = "returned" /\ passes[k].pullOk /\ passes[k].older # {}

\* C3: pullAllEntries inserts one local entry, with the remote client_id as
\* its identifier and all fields verbatim, for each remote record that has no
\* local counterpart, and the `inserted` count it returns is the number of
\* such records.
C3_InsertsMissing ==
    \A k \in 1..Len(passes) :
        LET p == passes[k]
        IN (p.pc = "returned" /\ p.pullOk) =>
              /\ p.inserted = Cardinality(p.missing)
              /\ \A j \in p.missing : local[j] = remote[p.user][j]

C3_Witness ==
    \E k \in 1..Len(passes) :
        /\ passes[k].pc = "returned" /\ passes[k].pullOk
        /\ Cardinality(passes[k].missing) = 2

\* C4: after a pass in which every remote call succeeded, for every
\* identifier that both stores held before the pass with different
\* updated-at values, both stores hold the version with the newer updated-at.
C4_LastWriteWins ==
    \A k \in 1..Len(passes) :
        LET p == passes[k]
        IN (p.pc = "returned" /\ p.pushOk /\ p.pullOk) =>
              \A j \in Present(p.lww) :
                  local[j] = p.lww[j] /\ remote[p.user][j] = p.lww[j]

\* C5: when signOut completes, the local journal_entries table and the local
\* reports table are both empty, whatever was in flight when it was called.
C5_SignOutLeavesTablesEmpty ==
    [][(soPc = "purge" /\ soPc' = "idle") =>
          (Present(local') = {} /\ Present(reports') = {})]_vars

C8_SecondPassWritesNothing ==
    \A k \in 1..Len(passes) :
        LET p == passes[k]
        IN (p.pc = "returned" /\ p.pullOk /\ p.idem) =>
              (p.inserted = 0 /\ p.updated = 0)

C8_Witness ==
    \E k \in 1..Len(passes) :
        /\ passes[k].pc = "returned" /\ passes[k].pullOk /\ passes[k].idem
        /\ Present(local) # {} /\ Present(remote[passes[k].user]) # {}

\* C9: the session observer starts a pass only when the session changes to
\* a user other than the one it held, and then exactly one: no event that
\* carries the user identifier of the current session starts another pass.
C9_OnePassPerSignIn ==
    [][Len(passes') # Len(passes) =>
          /\ Len(passes') = Len(passes) + 1
          /\ session' # NULL /\ session' # session
          /\ passes'[Len(passes')].user = session'
          /\ marker' = session']_vars

C9_Witness ==
    /\ Len(passes) = 2
    /\ session # NULL /\ marker = session

\* position of a pass in the sequence of its awaited steps
PassRank(pc) ==
    CASE pc = "pushEntriesRead" -> 1
      [] pc = "pushEntriesUpsert" -> 2
      [] pc = "pushReportsRead" -> 3
      [] pc = "pushReportsUpsert" -> 4
      [] pc = "pullSelect" -> 5
      [] pc = "pullRead" -> 6
      [] pc = "pullWrite" -> 6
      [] pc = "returned" -> 7
      [] pc = "done" -> 8

Ascending(rows) ==
    \A a, b \in 1..Len(rows) :
        a < b => getTime(rows[a].created_at) <= getTime(rows[b].created_at)

\* C10: within a pass the steps run one after the other in the order
\* push-all entries, push-all reports, pull-all entries, and pull-all
\* reconciles the remote records one at a time in ascending creation order.
C10_StepsInOrder ==
    [][\A k \in 1..Len(passes) :
         LET p == passes[k]
             q == passes'[k]
         IN PassMoved(k) =>
              /\ PassRank(q.pc) >= PassRank(p.pc)
              /\ PassRank(p.pc) \in {1, 2} =>
                    (local' = local /\ remoteReports' = remoteReports /\ q.rows = <<>>)
              /\ PassRank(p.pc) \in {3, 4} =>
                    (local' = local /\ remote' = remote /\ q.rows = <<>>)
              /\ PassRank(p.pc) >= 5 =>
                    (remote' = remote /\ remoteReports' = remoteReports)
              /\ Ascending(q.rows)
              /\ p.pc \in {"pullRead", "pullWrite"} =>
                    q.rows \in {p.rows, Tail(p.rows), <<>>}]_vars

C10_Witness ==
    \E k \in 1..Len(passes) :
        /\ passes[k].pc = "pullWrite"
        /\ Len(passes[k].rows) = 2
        /\ passes[k].rows[1].client_id > passes[k].rows[2].client_id

\* C11: every transition of the session to signed-out clears the local
\* journal_entries and reports tables; here for the transition made by a
\* session-null event of the auth provider while signOut is not running:
\* when its handler has run, both local tables are empty.
C11_SignedOutClearsLocal ==
    [][(session # NULL /\ session' = NULL /\ soPc' = "idle") =>
          (Present(local') = {} /\ Present(reports') = {})]_vars

\* C12: whenever the session is signed-out the marker lastPushedUserIdRef is
\* null, and every step that takes the session from signed-out to a user
\* starts a pass for that user, whoever was signed in before.
C12_SignedOutResetsMarker ==
    [][/\ session' = NULL => marker' = NULL
       /\ (session = NULL /\ session' # NULL) =>
             /\ Len(passes') = Len(passes) + 1
             /\ passes'[Len(passes')].user = session']_vars

C12_Witness ==
    /\ Len(passes) = 2
    /\ passes[1].user = "A" /\ passes[2].user = "A"
    /\ session = "A"

\* C13: a failed pushEntry, deleteRemoteEntry or pushReport is swallowed:
\* the step of a service call that makes the remote call changes no local
\* table, whatever its outcome, and takes the call to its return (or, after
\* a successful push, to the embedding request); a call makes one push at
\* most, and from its return the call only goes back to the screen.
C13_RemoteFailureSwallowed ==
    [][op' # op =>
         /\ op.pc \in {"push", "deleteRemote", "pushReport"} =>
               /\ local' = local /\ localSeq' = localSeq
               /\ reports' = reports /\ reportSeq' = reportSeq
               /\ op'.pc \in {"embed", "done"}
               /\ op'.kind = op.kind
         /\ op.pc = "push" => Len(op'.pushes) = 1
         /\ op.pc = "done" =>
               /\ op' = IdleOp
               /\ local' = local /\ reports' = reports
               /\ remote' = remote /\ remoteReports' = remoteReports]_vars

C13_Witness ==
    /\ op.kind = "create" /\ op.pc = "done" /\ op.sess # NULL
    /\ Len(op.pushes) = 1 /\ op.embeds = 0
    /\ local[op.id] = op.row
    /\ remote[op.sess][op.id] = NoRow

\* C14: when deleteEntry, called with a session, returns, neither the local
\* table nor the signed-in user's remote table holds a record with the
\* deleted identifier.
C14_DeleteRemovesFromBothStores ==
    (op.kind = "delete" /\ op.pc = "done" /\ op.sess # NULL) =>
        /\ local[op.id] = NoRow
        /\ remote[op.sess][op.id] = NoRow

\* C15: when a pass that ran with no other handler in between returns from
\* pullAllEntries and every remote call of it succeeded, the local
\* journal_entries table and the signed-in user's remote table hold the same
\* identifiers and, for each, the same title, content, date, created-at and
\* updated-at.
C15_StoresAgreeAfterPass ==
    \A k \in 1..Len(passes) :
        LET p == passes[k]
        IN (p.pc = "returned" /\ p.pushOk /\ p.pullOk) =>
              \A i \in Ids : local[i] = remote[p.user][i]

C15_Witness ==
    \E k \in 1..Len(passes) :
        /\ passes[k].pc = "returned" /\ passes[k].pushOk /\ passes[k].pullOk
        /\ Present(local) = {1, 2}
        /\ local[1].date = "d1" /\ local[2].date = "d2"
        /\ local[1].updated_at > local[1].created_at

\* C16: the UPDATE of updateEntry leaves the entry with an updated-at that
\* is not earlier than the one it had, also when that one was written by
\* pullAllEntries from a remote record (both parseable).
C16_UpdatedAtAdvances ==
    [][(op.kind = "update" /\ op.pc = "update" /\ op' # op) =>
          \A i \in Ids :
             (/\ local[i] # NoRow /\ local'[i] # NoRow
              /\ isFinite(getTime(local[i].updated_at))
              /\ isFinite(getTime(local'[i].updated_at)))
             => getTime(local'[i].updated_at) >= getTime(local[i].updated_at)]_vars

\* C17: the local tables are keyed by identifier; no row has an identifier
\* above the table's sequence, the sequence never goes down, and the INSERT
\* of createEntry or createReport assigns an identifier above the sequence
\* as it was: above every identifier assigned or inserted before, whatever
\* was deleted, pulled or cleared by signOut since.
C17_IdsNeverReused ==
    [][/\ Present(local') \subseteq 1..localSeq'
       /\ Present(reports') \subseteq 1..reportSeq'
       /\ localSeq' >= localSeq /\ reportSeq' >= reportSeq
       /\ (op.kind = "create" /\ op.pc = "insert" /\ op' # op) =>
             /\ op'.id > localSeq /\ op'.id = localSeq'
             /\ local[op'.id] = NoRow /\ local'[op'.id] # NoRow
       /\ (op.pc = "idle" /\ op'.kind = "createReport") =>
             /\ op'.id > reportSeq /\ op'.id = reportSeq'
             /\ reports'[op'.id] # NoRow]_vars

C17_Witness ==
    /\ op.kind = "create" /\ op.pc = "done" /\ op.id = 2
    /\ Present(local) = {2}
    /\ soPc = "idle" /\ session = NULL

\* C18: in a pass, the upsert of pushAllEntries is followed by pushAllReports
\* and the upsert of pushAllReports by pullAllEntries whether it succeeded
\* or failed, and no step of a pass is made twice: a pass whose push failed
\* goes on to the select of pullAllEntries.
C18_PushFailureDoesNotStopPass ==
    [][\A k \in 1..Len(passes) :
         LET p == passes[k]
             q == passes'[k]
         IN PassMoved(k) =>
              /\ p.pc = "pushEntriesUpsert" => q.pc = "pushReportsRead"
              /\ p.pc = "pushReportsUpsert" => q.pc = "pullSelect"
              /\ p.pc \in {"pushEntriesRead", "pushEntriesUpsert", "pushReportsRead",
                           "pushReportsUpsert", "pullSelect"} =>
                    PassRank(q.pc) > PassRank(p.pc)
              /\ (~p.pushOk /\ p.pc = "pushReportsRead") =>
                    q.pc \in {"pushReportsUpsert", "pullSelect"}]_vars

C18_Witness ==
    \E k \in 1..Len(passes) :
        /\ passes[k].pc = "returned" /\ ~passes[k].pushOk /\ passes[k].pullOk
        /\ passes[k].inserted = 1
        /\ Present(remoteReports[passes[k].user]) = {}
        /\ Present(reports) # {}

\* C19: no step of a reconciliation pass writes to the local reports table;
\* the table changes only by the INSERT of createReport and by the DELETE of
\* signOut, so that after a sign-out and a sign-in it stays empty although
\* the remote store holds reports of the user.
C19_ReportsNeverPulled ==
    [][/\ \A k \in 1..Len(passes) :
            PassMoved(k) => (reports' = reports /\ reportSeq' = reportSeq)
       /\ reports' # reports =>
            \/ op.pc = "idle" /\ op'.kind = "createReport"
            \/ soPc = "delReports" /\ reports' = EmptyReports]_vars

C19_Witness ==
    \E k \in 1..Len(passes) :
        /\ k = 2
        /\ passes[k].pc = "returned" /\ passes[k].pullOk
        /\ passes[k].user = session
        /\ Present(remoteReports[session]) # {}
        /\ Present(reports) = {}


\* C20: every speech-to-text conversion and every report-generation request
\* that has started eventually ends, with a result or as a reported failure;
\* in particular the polling loop of a transcription ends even when the remote
\* job never reaches 'completed' or 'error'.
C20_RequestsTerminate ==
    /\ (stt.pc # "idle") ~> (stt.pc \in {"returned", "failed"})
    /\ (gen.pc # "idle") ~> (gen.pc \in {"returned", "thrown"})

\* C21: signOut clears the Redux journal state (entries, filtered entries and
\* search query) and the persisted copy of it, and leaves the personalization
\* settings as they were.
C21_SignOutKeepsPersonalization ==
    [][/\ (soPc = "redux" /\ soPc' = "purge") =>
            /\ journal'.entries = [d \in SliceDates |-> ""]
            /\ journal'.filteredEntries = {}
            /\ journal'.searchQuery = ""
            /\ settings'.personalization = settings.personalization
       /\ (soPc = "purge" /\ soPc' = "idle") =>
            \/ persisted'.journal = NotStored
            \/ persisted' = persisted]_vars

\* C30: personalization.fontSize is within [14, 24] in every reachable state
\* of the settings slice.
C30_FontSizeInRange ==
    /\ settings.personalization.fontSize >= MinFontSize
    /\ settings.personalization.fontSize <= MaxFontSize

\* C23: generateAIReport reports every failure as a value: after an HTTP
\* non-2xx response, a network error, an abort by timeout or a failure while
\* resolving the session token it returns a failure result, and it never
\* throws to its caller.
C23_FailuresAreValues ==
    /\ gen.pc # "thrown"
    /\ gen.pc = "returned" =>
          gen.result \in {"report", "No report returned", "HTTP error",
                          "Network timeout", "Network request failed"}

\* C24: for every input the request body built by generateAIReport has a
\* prompt of at most 500 characters, at most 3 analysis types,
\* date_range_days within [1, 365] and match_count within [1, 50].
C24_BodyWithinBounds ==
    gen.pc # "idle" =>
        /\ gen.body.prompt \in 0..MaxPromptChars
        /\ gen.body.preferred_analysis_types \in 0..MaxAnalysisTypes
        /\ gen.body.date_range_days \in MinDateRangeDays..MaxDateRangeDays
        /\ gen.body.match_count \in MinMatchCount..MaxMatchCount
        /\ \A params \in ParamInputs :
              /\ params.dateRangeDays = Undefined =>
                    RequestBody(params).date_range_days = DefaultDateRangeDays
              /\ params.matchCount = Undefined =>
                    RequestBody(params).match_count = DefaultMatchCount

\* C22: a report-generation request with a blank prompt, or made while no
\* user is signed in, is rejected with a message before any call to the
\* report backend or the local store, and isGenerating stays false.
C22_BlankOrSignedOutRejected ==
    [][/\ (modal.pc = "idle" /\ (Trim(modal.prompt) = "" \/ session = NULL)) =>
            /\ modal'.pc = "idle"
            /\ ~modal.isGenerating /\ ~modal'.isGenerating
            /\ gen' = gen
            /\ reports' = reports /\ reportSeq' = reportSeq /\ op' = op
       /\ modal'.alert # modal.alert =>
            /\ modal.pc = "idle"
            /\ modal'.alert = IF Trim(modal.prompt) = "" THEN "Missing Prompt"
                              ELSE "You might not be logged in."
            /\ Trim(modal.prompt) = "" \/ session = NULL]_vars

C22_Witness ==
    /\ modal.alert = "You might not be logged in."
    /\ modal.prompt = "p"
    /\ session = NULL
    /\ modal.pc = "idle" /\ ~modal.isGenerating
    /\ gen = IdleGen /\ op = IdleOp /\ reportSeq = 0

C25_NoEntryOfAInStoreOfB == Present(remote["B"]) = {}

\* C26: in the new-entry input each text the user saves produces exactly one
\* created entry: at most one onSave call is in flight at any time, and the
\* onSave calls made never outnumber the texts typed (a manual save is not
\* doubled by the pending debounced autosave of the same text).
C26_OneSavePerText ==
    /\ Len(editor.saves) <= 1
    /\ Len(editor.saves) + Len(editor.saved) <= editor.typed

\* no load and no creation of the screen is in flight
ScreenSettled == screen.loads = {} /\ screen.creating = NULL

\* C27: in JournalScreen, once every pending load and create has completed,
\* the displayed list holds only entries whose date is the current date,
\* whatever order the asynchronous calls resolve in.
C27_DisplayedEntriesOfCurrentDate ==
    ScreenSettled =>
        \A e \in screen.currentDateEntries : e.date = screen.currentDate

\* the step is a step of pullAllEntries in pass k
PullStep(k) ==
    /\ PassMoved(k)
    /\ passes[k].pc \in {"pullSelect", "pullRead", "pullWrite"}

\* the step is a step of pushAllEntries or pushAllReports in pass k
PushAllStep(k) ==
    /\ PassMoved(k)
    /\ passes[k].pc \in {"pushEntriesRead", "pushEntriesUpsert",
                          "pushReportsRead", "pushReportsUpsert"}

\* the step is pushEntry, deleteRemoteEntry, pushReport or deleteRemoteReport
RemoteCallStep ==
    /\ op.pc \in {"push", "deleteRemote", "pushReport", "deleteRemoteReport"}
    /\ op' # op

\* the client_ids of the remote rows pullAllEntries in pass k has yet to merge
ResultIds(k) == {passes[k].rows[j].client_id : j \in 1..Len(passes[k].rows)}

\* C28: sync operations respect a frame: a step of pullAllEntries never
\* deletes a local entry and changes only a local entry whose id is in the
\* remote result, and pushAllEntries, pushAllReports, pushEntry,
\* deleteRemoteEntry, pushReport and deleteRemoteReport leave the local
\* entries and the local reports as they are.
C28_SyncFrame ==
    [][/\ \A k \in 1..Len(passes) :
            PullStep(k) =>
               /\ \A i \in Ids : local[i] # NoRow => local'[i] # NoRow
               /\ \A i \in Ids : local'[i] # local[i] => i \in ResultIds(k)
               /\ UNCHANGED <<reports, reportSeq>>
       /\ \A k \in 1..Len(passes) :
            PushAllStep(k) => UNCHANGED <<local, localSeq, reports, reportSeq>>
       /\ RemoteCallStep => UNCHANGED <<local, localSeq, reports, reportSeq>>
      ]_vars

\* a pull has merged a remote row while the local table holds an entry that
\* is not in the user's remote store, and a remote call of a service function
\* was made
C28_Witness ==
    /\ session # NULL
    /\ \E k \in 1..Len(passes) : passes[k].inserted + passes[k].updated > 0
    /\ \E i \in Ids : local[i] # NoRow /\ remote[session][i] = NoRow
    /\ op.pushes # <<>>

====
